---- MODULE Spec2Model ----
\* A model of rambot's coalescing message channel (src/src/buf_messenger.rs)
\* and of its transcription worker pool (src/src/transcriber/).
EXTENDS Integers, Sequences, FiniteSets, TLC

\* ---------------------------------------------------------------- bounds
\* Texts are 1..MaxText; the caller makes at most MaxDispatch
\* dispatch_edit_text calls and MaxFlush flush calls on the handle.
MaxText == 2
MaxDispatch == 2
MaxFlush == 2
\* A burst is at most MaxBurst dispatch_edit_text calls before a flush.
MaxBurst == 3

Texts == 1..MaxText

\* Duration::from_millis(200), in ticks of 100 ms.
DebounceDelay == 2

\* ---------------------------------------------------------------- values
\* Error values: a pair <<variant, id>>. Request errors carry the number of
\* the call that produced them (0: the initial send, k: the k-th edit call).
NoError == <<"None", 0>>
UpdateMsgWorkerDied == <<"UpdateMsgWorkerDied", 0>>
RequestError(k) == <<"Request", k>>

Ok == [ok |-> TRUE, err |-> NoError]
Err(e) == [ok |-> FALSE, err |-> e]

\* enum UpdateReq
ReqEdit(t) == [kind |-> "Edit", text |-> t]
ReqFlush == [kind |-> "Flush", text |-> 0]

\* enum MsgResp
RespFlush == [kind |-> "Flush", err |-> NoError]
RespError(e) == [kind |-> "Error", err |-> e]

VARIABLES
    \* --- program state of one message channel
    sendSt,         \* the SendReq: "pending", "failed", "spawned"
    sentText,       \* SendReq.text
    req,            \* the UpdateReq queue (req_tx -> req_rx)
    resp,           \* the MsgResp queue (resp_tx -> resp_rx)
    callerPc,       \* the handle's owner: "idle", "dispatching", "flushing",
                    \* "closing", "dropped", "panicked"
    delayed_error,  \* flush()'s local
    lastRet,        \* what the most recent handle call returned
    wPc,            \* run_update_worker: "none", "recv", "debounce", "editing", "done"
    text,           \* run_update_worker's pending text
    flush_after,    \* run_update_worker's local
    current_text,   \* run_update_worker's last-applied text
    timer,          \* ticks left until slight_delay when last looked at
    remote,         \* the text the remote message shows (0: no message)
    \* --- history of the run, read by the properties only
    nDispatch,      \* dispatch_edit_text calls made
    nFlush,         \* flush()/close() calls made
    nSent,          \* Edit requests put on the queue
    nTaken,         \* Edit requests the worker took off the queue
    nResolved,      \* Edit requests applied or skipped
    editLog,        \* the edit calls issued: <<text, ...>>
    editFails,      \* how many edit calls failed
    lastReq,        \* the most recently requested text (0: none)
    errReported,    \* some handle call returned Err
    sentAtFlush,    \* nSent when the current/last flush began
    editsAtFlush,   \* Len(editLog) when the current/last flush began
    idleAtFlush,    \* the channel had no pending update when that flush began
    winTexts,       \* the texts received in the current/last debounce window
    winApplied,     \* current_text when that window was settled
    winEdits,       \* the edit calls issued for that window
    sinceUpd,       \* ticks since the worker took the window's latest Edit
    sentLog,        \* the texts of the Edit requests put on the queue, in order
    nCaptured       \* errors the current/last flush() took off the queue

chanVars == <<sendSt, sentText, req, resp, callerPc, delayed_error, lastRet,
              wPc, text, flush_after, current_text, remote, timer>>
histVars == <<nDispatch, nFlush, nSent, nTaken, nResolved, editLog, editFails,
              lastReq, errReported, sentAtFlush, editsAtFlush, idleAtFlush,
              winTexts, winApplied, winEdits, sinceUpd, sentLog,
              nCaptured>>
VARIABLES
    \* --- program state of the worker pool and its jobs
    queue,          \* the intake queue (async_channel::bounded): job ids
    nSubmitted,     \* submit_job calls made; job ids are 1..nSubmitted
    wk,             \* run_worker, per worker: [pc, job, seg]
    cons,           \* the consumer of each job: which handle it holds
    stageQ,         \* per job: stage notifications sent and not yet received
    upd,            \* per job: the update channel of its Transcribing stage
    prodGone,       \* per job: the producer's senders have been dropped
    \* --- history of the run, read by the properties only
    obs,            \* per job: what its consumer has received, in order
    runs,           \* per job: how many times a worker dequeued it
    gaveUp,         \* per worker: the job it last abandoned on a failed send
    diedOn,         \* per worker: the job it panicked on (0: none)
    sawBurst        \* some next() call found two or more Lines queued

poolVars == <<queue, nSubmitted, wk, cons, stageQ, upd, prodGone,
              obs, runs, gaveUp, diedOn, sawBurst>>

VARIABLES
    \* --- program state of the database (Db) and of its file
    inner,          \* Db::inner: [chats, users]
    disk,           \* the database file: [state, data]
    \* --- history of the run, read by the properties only
    dbRet,          \* what the latest database mutation returned
    nDbOps          \* database mutations made

dbVars == <<inner, disk, dbRet, nDbOps>>

VARIABLES
    \* --- history of the message handler, read by the properties only
    nMsgs,          \* messages handled by try_handle_message
    hRet,           \* what the latest try_handle_message returned
    hTrusted,       \* the sender of that message was a trusted user
    hCmd,           \* the command try_handle_command ran for it ("none")
    hAsk,           \* the transcription it asked for: [mode, trigger, self]
    hJob            \* try_handle_voice_message submitted a job for it

hVars == <<nMsgs, hRet, hTrusted, hCmd, hAsk, hJob>>

VARIABLES
    \* --- program state of one Transcription (the multipart message)
    duration_secs,  \* the duration Transcription::start was given
    maybe_sidecar,  \* the chat has a sidecar: there is a preview message
    transcription,  \* Transcription.transcription: the Lines pushed so far
    status,         \* Transcription.status ("" for None)
    preview,        \* the text last dispatched to the preview message
    multipart       \* the text last dispatched to each part, in order

reflowVars == <<duration_secs, maybe_sidecar, transcription, status, preview,
                multipart>>

botVars == <<dbVars, hVars, reflowVars>>

vars == <<chanVars, histVars, poolVars, botVars>>

\* ---------------------------------------------------------------- channels
\* req_rx lives in the queued SendReq, then in the update worker.
ReqRxAlive == sendSt = "pending" \/ (sendSt = "spawned" /\ wPc # "done")
\* resp_tx lives in the queued SendReq, then in the update worker.
RespTxAlive == sendSt = "pending" \/ (sendSt = "spawned" /\ wPc # "done")
\* req_tx and resp_rx live in the UpdateMsgHandle.
HandleAlive == callerPc \notin {"dropped", "panicked"}

\* tx.send(m) with the result ignored: nothing is queued once resp_rx is gone.
Post(q, m) == IF HandleAlive THEN Append(q, m) ELSE q

\* ---------------------------------------------------------------- Init
\* The state right after SendMsgHandle::dispatch_send_msg returned the handle:
\* the SendReq is queued, both channels are empty. The texts are
\* interchangeable, so the sent text is taken to be text 1.
ChanInit ==
    /\ sendSt = "pending"
    /\ sentText = 1
    /\ req = <<>>
    /\ resp = <<>>
    /\ callerPc = "idle"
    /\ delayed_error = NoError
    /\ lastRet = [op |-> "none", ok |-> TRUE, err |-> NoError]
    /\ wPc = "none"
    /\ text = 0
    /\ flush_after = FALSE
    /\ current_text = 0
    /\ remote = 0
    /\ nDispatch = 0
    /\ nFlush = 0
    /\ nSent = 0
    /\ nTaken = 0
    /\ nResolved = 0
    /\ editLog = <<>>
    /\ editFails = 0
    /\ lastReq = 0
    /\ errReported = FALSE
    /\ sentAtFlush = 0
    /\ editsAtFlush = 0
    /\ idleAtFlush = TRUE
    /\ winTexts = <<>>
    /\ winApplied = 0
    /\ winEdits = <<>>
    /\ timer = 0
    /\ sinceUpd = 0
    /\ sentLog = <<>>
    /\ nCaptured = 0

\* ---------------------------------------------------------------- run_send_worker
\* bot.send_message succeeded: the update worker is spawned with
\* current_text = the sent text.
SendOk ==
    /\ sendSt = "pending"
    /\ sendSt' = "spawned"
    /\ remote' = sentText
    /\ current_text' = sentText
    /\ wPc' = "recv"
    /\ UNCHANGED <<sentText, req, resp, callerPc, delayed_error, lastRet, text,
                   flush_after, histVars>>
    /\ UNCHANGED timer
    /\ UNCHANGED <<poolVars, botVars>>

\* bot.send_message failed: the error is posted, then req_rx and resp_tx drop.
SendFail ==
    /\ sendSt = "pending"
    /\ sendSt' = "failed"
    /\ resp' = Post(resp, RespError(RequestError(0)))
    /\ req' = <<>>
    /\ UNCHANGED <<sentText, callerPc, delayed_error, lastRet, wPc, text,
                   flush_after, current_text, remote, histVars>>
    /\ UNCHANGED timer
    /\ UNCHANGED <<poolVars, botVars>>

\* ---------------------------------------------------------------- UpdateMsgHandle
\* The call returns `r` to the caller; close() consumes the handle.
Return(op, r) ==
    /\ lastRet' = [op |-> op, ok |-> r.ok, err |-> r.err]
    /\ errReported' = (errReported \/ ~r.ok)
    /\ callerPc' = IF op = "close" THEN "dropped" ELSE "idle"

\* Mutant of Send: the request jumps the queue.
SendInFront(q, m) == <<m>> \o q

\* req_tx.send(m) on the unbounded request channel: first in, first out.
Send(q, m) == Append(q, m)

\* dispatch_edit_text, first half: req_tx.send(UpdateReq::Edit(text)).
DispatchSend(t, limit) ==
    /\ callerPc = "idle"
    /\ nDispatch < limit
    /\ nDispatch' = nDispatch + 1
    /\ lastReq' = t
    /\ IF ReqRxAlive
       THEN /\ req' = Send(req, ReqEdit(t))
            /\ nSent' = nSent + 1
            /\ sentLog' = Append(sentLog, t)
            /\ callerPc' = "dispatching"
            /\ UNCHANGED <<lastRet, errReported>>
       ELSE /\ Return("dispatch", Err(UpdateMsgWorkerDied))
            /\ UNCHANGED <<req, nSent, sentLog>>
    /\ UNCHANGED <<sendSt, sentText, resp, delayed_error, wPc, text, flush_after,
                   current_text, remote, nFlush, nTaken, nResolved, editLog,
                   editFails, sentAtFlush, editsAtFlush, idleAtFlush,
                   winTexts, winApplied, winEdits>>
    /\ UNCHANGED <<timer, sinceUpd>>
    /\ UNCHANGED nCaptured
    /\ UNCHANGED <<poolVars, botVars>>

\* The `while let Ok(resp) = self.resp_rx.try_recv()` loop: every arm leaves
\* the loop, so only the head of the queue is looked at.
TryRecvLoop(q) ==
    IF q = <<>> THEN [panic |-> FALSE, ret |-> Ok, q |-> q]
    ELSE IF Head(q).kind = "Error"
         THEN [panic |-> FALSE, ret |-> Err(Head(q).err), q |-> Tail(q)]
         ELSE [panic |-> TRUE, ret |-> Ok, q |-> Tail(q)]

\* dispatch_edit_text, second half.
DispatchDrain ==
    /\ callerPc = "dispatching"
    /\ LET out == TryRecvLoop(resp) IN
       IF out.panic
       THEN /\ callerPc' = "panicked"
            /\ resp' = <<>>
            /\ UNCHANGED <<lastRet, errReported>>
       ELSE /\ resp' = out.q
            /\ Return("dispatch", out.ret)
    /\ UNCHANGED <<sendSt, sentText, req, delayed_error, wPc, text, flush_after,
                   current_text, remote, nDispatch, nFlush, nSent, nTaken,
                   nResolved, editLog, editFails, lastReq, sentAtFlush,
                   editsAtFlush, idleAtFlush, winTexts,
                   winApplied, winEdits>>
    /\ UNCHANGED <<timer, sinceUpd>>
    /\ UNCHANGED sentLog
    /\ UNCHANGED nCaptured
    /\ UNCHANGED <<poolVars, botVars>>

\* No Edit request is queued and the worker holds no pending text.
NoPendingUpdate ==
    /\ \A i \in 1..Len(req) : req[i].kind # "Edit"
    /\ wPc \notin {"debounce", "editing"}

\* flush() / close(), first half: req_tx.send(UpdateReq::Flush).
FlushSend(op) ==
    /\ callerPc = "idle"
    /\ op = "flush" => nFlush < MaxFlush
    /\ nFlush' = IF op = "flush" THEN nFlush + 1 ELSE nFlush
    /\ sentAtFlush' = nSent
    /\ editsAtFlush' = Len(editLog)
    /\ idleAtFlush' = NoPendingUpdate
    /\ delayed_error' = NoError
    /\ nCaptured' = 0
    /\ IF ReqRxAlive
       THEN /\ req' = Send(req, ReqFlush)
            /\ callerPc' = IF op = "close" THEN "closing" ELSE "flushing"
            /\ UNCHANGED <<lastRet, errReported, resp>>
       ELSE /\ Return(op, Err(UpdateMsgWorkerDied))
            /\ resp' = IF op = "close" THEN <<>> ELSE resp
            /\ UNCHANGED req
    /\ UNCHANGED <<sendSt, sentText, wPc, text, flush_after, current_text,
                   remote, nDispatch, nSent, nTaken, nResolved, editLog,
                   editFails, lastReq, winTexts, winApplied, winEdits>>
    /\ UNCHANGED <<timer, sinceUpd>>
    /\ UNCHANGED sentLog
    /\ UNCHANGED <<poolVars, botVars>>

\* What flush() returns when it receives the Flush acknowledgment.
FlushAcked(delayed) == Ok

\* What flush() returns when resp_rx.recv() yields None.
FlushClosed(delayed) ==
    Err(IF delayed # NoError THEN delayed ELSE UpdateMsgWorkerDied)

\* flush() / close(), one turn of the `loop { match self.resp_rx.recv().await`.
FlushRecv ==
    /\ callerPc \in {"flushing", "closing"}
    /\ LET op == IF callerPc = "closing" THEN "close" ELSE "flush" IN
       IF resp # <<>>
       THEN IF Head(resp).kind = "Error"
            THEN /\ delayed_error' = Head(resp).err
                 /\ nCaptured' = nCaptured + 1
                 /\ resp' = Tail(resp)
                 /\ UNCHANGED <<callerPc, lastRet, errReported>>
            ELSE /\ Return(op, FlushAcked(delayed_error))
                 /\ resp' = IF op = "close" THEN <<>> ELSE Tail(resp)
                 /\ UNCHANGED <<delayed_error, nCaptured>>
       ELSE /\ ~RespTxAlive
            /\ Return(op, FlushClosed(delayed_error))
            /\ UNCHANGED <<resp, delayed_error, nCaptured>>
    /\ UNCHANGED <<sendSt, sentText, req, wPc, text, flush_after, current_text,
                   remote, nDispatch, nFlush, nSent, nTaken, nResolved, editLog,
                   editFails, lastReq, sentAtFlush, editsAtFlush, idleAtFlush,
                   winTexts, winApplied, winEdits>>
    /\ UNCHANGED <<timer, sinceUpd>>
    /\ UNCHANGED sentLog
    /\ UNCHANGED <<poolVars, botVars>>

\* The handle goes out of scope without close(): req_tx and resp_rx drop.
DropHandle ==
    /\ callerPc = "idle"
    /\ callerPc' = "dropped"
    /\ resp' = <<>>
    /\ UNCHANGED <<sendSt, sentText, req, delayed_error, lastRet, wPc, text,
                   flush_after, current_text, remote, histVars>>
    /\ UNCHANGED timer
    /\ UNCHANGED <<poolVars, botVars>>

\* ---------------------------------------------------------------- run_update_worker
\* Mutant of Coalesce: the pending text is kept and the later Edit is lost.
CoalesceKeepsPending(pending, fresher) == pending

\* `text = fresher_text`: a later Edit replaces the pending text.
Coalesce(pending, fresher) == fresher

\* Mutant of IsDuplicate: no text is taken for a duplicate.
IsDuplicateNever(t, cur) == FALSE

\* Mutant of IsDuplicate: the test is inverted.
IsDuplicateInverted(t, cur) == t # cur

\* `if text == current_text`: the duplicate test of the apply-or-skip step.
IsDuplicate(t, cur) == t = cur

\* Mutant of SettleResponses: the Flush marker is posted after every settled
\* window, whether or not a flush ended the wait.
SettleResponsesAlwaysAcks(q, failed, k, fa) ==
    LET q1 == IF failed THEN Post(q, RespError(RequestError(k))) ELSE q
    IN  Post(q1, RespFlush)

\* Mutant of SettleResponses: a failed edit call posts its error and skips the
\* Flush acknowledgment.
SettleResponsesNoAckOnError(q, failed, k, fa) ==
    IF failed THEN Post(q, RespError(RequestError(k)))
    ELSE IF fa THEN Post(q, RespFlush) ELSE q

\* The responses posted once the pending text is settled: the error of a
\* failed edit call, then the Flush acknowledgment when a flush ended the wait.
SettleResponses(q, failed, k, fa) ==
    LET q1 == IF failed THEN Post(q, RespError(RequestError(k))) ELSE q
    IN  IF fa THEN Post(q1, RespFlush) ELSE q1

\* Mutant of Settle: a flush that ends the wait is acknowledged before the
\* edit call is made instead of after it has returned.
SettleAcksBeforeEdit(t, fa) ==
    /\ text' = t
    /\ sinceUpd' = 0
    /\ UNCHANGED timer
    /\ winApplied' = current_text
    /\ IF IsDuplicate(t, current_text)
       THEN /\ wPc' = "recv"
            /\ flush_after' = fa
            /\ resp' = SettleResponses(resp, FALSE, 0, fa)
            /\ nResolved' = nTaken'
            /\ UNCHANGED <<current_text, editLog, winEdits>>
       ELSE /\ wPc' = "editing"
            /\ flush_after' = FALSE
            /\ resp' = SettleResponses(resp, FALSE, 0, fa)
            /\ current_text' = t
            /\ editLog' = Append(editLog, t)
            /\ winEdits' = Append(winEdits, t)
            /\ UNCHANGED nResolved

\* The apply-or-skip step that follows the debounce loop, up to the await of
\* msg.edit_text: `t` is the pending text, `fa` is flush_after.
Settle(t, fa) ==
    /\ text' = t
    /\ sinceUpd' = 0
    /\ UNCHANGED timer
    /\ flush_after' = fa
    /\ winApplied' = current_text
    /\ IF IsDuplicate(t, current_text)
       THEN /\ wPc' = "recv"
            /\ resp' = SettleResponses(resp, FALSE, 0, fa)
            /\ nResolved' = nTaken'
            /\ UNCHANGED <<current_text, editLog, winEdits>>
       ELSE /\ wPc' = "editing"
            /\ current_text' = t
            /\ editLog' = Append(editLog, t)
            /\ winEdits' = Append(winEdits, t)
            /\ UNCHANGED <<resp, nResolved>>

\* Mutant of WorkerRecv: a Flush taken at the top of the loop re-sends the
\* current text in an edit call before it is acknowledged.
WorkerRecvFlushEdits ==
    /\ wPc = "recv"
    /\ req # <<>>
    /\ req' = Tail(req)
    /\ IF Head(req).kind = "Flush"
       THEN /\ wPc' = "editing"
            /\ text' = current_text
            /\ flush_after' = TRUE
            /\ editLog' = Append(editLog, current_text)
            /\ UNCHANGED <<resp, nTaken, winTexts, winEdits, timer, sinceUpd>>
       ELSE /\ wPc' = "debounce"
            /\ text' = Head(req).text
            /\ timer' = DebounceDelay
            /\ sinceUpd' = 0
            /\ flush_after' = FALSE
            /\ nTaken' = nTaken + 1
            /\ winTexts' = <<Head(req).text>>
            /\ winEdits' = <<>>
            /\ UNCHANGED <<resp, editLog>>
    /\ UNCHANGED <<sendSt, sentText, callerPc, delayed_error, lastRet,
                   current_text, remote, nDispatch, nFlush, nSent, nResolved,
                   editFails, lastReq, errReported, sentAtFlush, editsAtFlush,
                   idleAtFlush, winApplied>>
    /\ UNCHANGED sentLog
    /\ UNCHANGED nCaptured
    /\ UNCHANGED <<poolVars, botVars>>

\* `while let Some(req) = rx.recv().await`, a request is queued: a Flush is
\* acknowledged at once, an Edit opens a debounce window.
WorkerRecv ==
    /\ wPc = "recv"
    /\ req # <<>>
    /\ req' = Tail(req)
    /\ IF Head(req).kind = "Flush"
       THEN /\ resp' = Post(resp, RespFlush)
            /\ UNCHANGED <<wPc, text, flush_after, nTaken, winTexts, winEdits,
                           timer, sinceUpd>>
       ELSE /\ wPc' = "debounce"
            /\ text' = Head(req).text
            /\ timer' = DebounceDelay
            /\ sinceUpd' = 0
            /\ flush_after' = FALSE
            /\ nTaken' = nTaken + 1
            /\ winTexts' = <<Head(req).text>>
            /\ winEdits' = <<>>
            /\ UNCHANGED resp
    /\ UNCHANGED <<sendSt, sentText, callerPc, delayed_error, lastRet,
                   current_text, remote, nDispatch, nFlush, nSent, nResolved,
                   editLog, editFails, lastReq, errReported, sentAtFlush,
                   editsAtFlush, idleAtFlush, winApplied>>
    /\ UNCHANGED sentLog
    /\ UNCHANGED nCaptured
    /\ UNCHANGED <<poolVars, botVars>>

\* rx.recv() yields None at the top of the loop: the worker ends.
WorkerExit ==
    /\ wPc = "recv"
    /\ req = <<>>
    /\ ~HandleAlive
    /\ wPc' = "done"
    /\ UNCHANGED <<sendSt, sentText, req, resp, callerPc, delayed_error, lastRet,
                   text, flush_after, current_text, remote, histVars>>
    /\ UNCHANGED timer
    /\ UNCHANGED <<poolVars, botVars>>

\* Time passes while the worker waits in the debounce loop: slight_delay was
\* fixed when the window opened and comes one tick closer.
Tick ==
    /\ wPc = "debounce"
    /\ timer > 0
    /\ timer' = timer - 1
    /\ sinceUpd' = IF sinceUpd < DebounceDelay THEN sinceUpd + 1 ELSE sinceUpd
    /\ UNCHANGED <<sendSt, sentText, req, resp, callerPc, delayed_error, lastRet,
                   wPc, text, flush_after, current_text, remote, nDispatch,
                   nFlush, nSent, nTaken, nResolved, editLog, editFails, lastReq,
                   errReported, sentAtFlush, editsAtFlush, idleAtFlush,
                   winTexts, winApplied, winEdits>>
    /\ UNCHANGED sentLog
    /\ UNCHANGED nCaptured
    /\ UNCHANGED <<poolVars, botVars>>

\* select!: time::sleep_until(slight_delay) completes.
DebounceTimeout ==
    /\ wPc = "debounce"
    /\ timer = 0
    /\ nTaken' = nTaken
    /\ Settle(text, FALSE)
    /\ UNCHANGED <<sendSt, sentText, req, callerPc, delayed_error, lastRet,
                   remote, nDispatch, nFlush, nSent, editFails, lastReq,
                   errReported, sentAtFlush, editsAtFlush, idleAtFlush,
                   winTexts>>
    /\ UNCHANGED sentLog
    /\ UNCHANGED nCaptured
    /\ UNCHANGED <<poolVars, botVars>>

\* Mutant of DebounceRecv: a Flush taken during the wait drops the pending
\* text and is acknowledged without it being applied.
DebounceRecvFlushDropsPending ==
    /\ wPc = "debounce"
    /\ req # <<>>
    /\ req' = Tail(req)
    /\ IF Head(req).kind = "Edit"
       THEN /\ text' = Coalesce(text, Head(req).text)
            /\ nTaken' = nTaken + 1
            /\ winTexts' = Append(winTexts, Head(req).text)
            /\ sinceUpd' = 0
            /\ UNCHANGED <<wPc, flush_after, resp, current_text, nResolved,
                           editLog, winApplied, winEdits, timer>>
       ELSE /\ nTaken' = nTaken
            /\ Settle(current_text, TRUE)
            /\ UNCHANGED winTexts
    /\ UNCHANGED <<sendSt, sentText, callerPc, delayed_error, lastRet, remote,
                   nDispatch, nFlush, nSent, editFails, lastReq, errReported,
                   sentAtFlush, editsAtFlush, idleAtFlush>>
    /\ UNCHANGED sentLog
    /\ UNCHANGED nCaptured
    /\ UNCHANGED <<poolVars, botVars>>

\* select!: rx.recv() completes with a request. A fresher Edit replaces the
\* pending text and the loop goes on; a Flush ends the wait.
DebounceRecv ==
    /\ wPc = "debounce"
    /\ req # <<>>
    /\ req' = Tail(req)
    /\ IF Head(req).kind = "Edit"
       THEN /\ text' = Coalesce(text, Head(req).text)
            /\ nTaken' = nTaken + 1
            /\ winTexts' = Append(winTexts, Head(req).text)
            /\ sinceUpd' = 0
            /\ UNCHANGED <<wPc, flush_after, resp, current_text, nResolved,
                           editLog, winApplied, winEdits, timer>>
       ELSE /\ nTaken' = nTaken
            /\ Settle(text, TRUE)
            /\ UNCHANGED winTexts
    /\ UNCHANGED <<sendSt, sentText, callerPc, delayed_error, lastRet, remote,
                   nDispatch, nFlush, nSent, editFails, lastReq, errReported,
                   sentAtFlush, editsAtFlush, idleAtFlush>>
    /\ UNCHANGED sentLog
    /\ UNCHANGED nCaptured
    /\ UNCHANGED <<poolVars, botVars>>

\* Mutant of DebounceClosed: the worker ends as soon as the request queue
\* closes and the pending text is lost.
DebounceClosedDropsPending ==
    /\ wPc = "debounce"
    /\ req = <<>>
    /\ ~HandleAlive
    /\ wPc' = "done"
    /\ UNCHANGED <<sendSt, sentText, req, resp, callerPc, delayed_error, lastRet,
                   text, flush_after, current_text, remote, timer, histVars>>
    /\ UNCHANGED <<poolVars, botVars>>

\* select!: rx.recv() completes with None (the handle was dropped).
DebounceClosed ==
    /\ wPc = "debounce"
    /\ req = <<>>
    /\ ~HandleAlive
    /\ nTaken' = nTaken
    /\ Settle(text, FALSE)
    /\ UNCHANGED <<sendSt, sentText, req, callerPc, delayed_error, lastRet,
                   remote, nDispatch, nFlush, nSent, editFails, lastReq,
                   errReported, sentAtFlush, editsAtFlush, idleAtFlush,
                   winTexts>>
    /\ UNCHANGED sentLog
    /\ UNCHANGED nCaptured
    /\ UNCHANGED <<poolVars, botVars>>

\* msg.edit_text(text).await returns: on success the remote message shows the
\* text, on failure it keeps what it showed and the error is posted.
EditReturns(success) ==
    /\ wPc = "editing"
    /\ wPc' = "recv"
    /\ remote' = IF success THEN text ELSE remote
    /\ editFails' = IF success THEN editFails ELSE editFails + 1
    /\ resp' = SettleResponses(resp, ~success, Len(editLog), flush_after)
    /\ nResolved' = nTaken
    /\ UNCHANGED <<sendSt, sentText, req, callerPc, delayed_error, lastRet, text,
                   flush_after, current_text, nDispatch, nFlush, nSent, nTaken,
                   editLog, lastReq, errReported, sentAtFlush, editsAtFlush,
                   idleAtFlush, winTexts, winApplied, winEdits>>
    /\ UNCHANGED <<timer, sinceUpd>>
    /\ UNCHANGED sentLog
    /\ UNCHANGED nCaptured
    /\ UNCHANGED <<poolVars, botVars>>

\* ---------------------------------------------------------------- the channel
SendWorker == SendOk \/ SendFail

Caller ==
    \/ \E t \in Texts : DispatchSend(t, MaxDispatch)
    \/ DispatchDrain
    \/ FlushSend("flush")
    \/ FlushSend("close")
    \/ FlushRecv
    \/ DropHandle

\* The owner of a handle that sends bursts of up to MaxBurst updates.
BurstCaller ==
    \/ \E t \in Texts : DispatchSend(t, MaxBurst)
    \/ DispatchDrain
    \/ FlushSend("flush")
    \/ FlushSend("close")
    \/ FlushRecv
    \/ DropHandle

UpdateWorker ==
    \/ WorkerRecv
    \/ WorkerExit
    \/ DebounceTimeout
    \/ DebounceRecv
    \/ DebounceClosed
    \/ EditReturns(TRUE)
    \/ EditReturns(FALSE)

\* ================================================================ the pool
\* Jobs are submitted in the order 1, 2, ..: up to MaxJobs of them, or up to
\* MaxOverload more than that when the pool is loaded beyond its workers. The
\* engine emits at most MaxSegs segments for a job.
MaxJobs == 2
MaxOverload == 1
MaxSegs == 1

\* One transcript followed closely: up to MaxStreams jobs of up to
\* MaxStreamSegs segments each.
MaxStreams == 1
MaxStreamSegs == 2

\* The intake queue under load: up to MaxBlocked more submissions than the
\* queue and the workers together can hold.
MaxBlocked == 1

\* A slow consumer: the engine produces up to MaxBacklog more segments than
\* the update channel can hold.
MaxBacklog == 1

\* Pool::spawn(2) in main; async_channel::bounded(32); mpsc::channel(16).
NumWorkers == 2
QueueCap == 32
UpdCap == 16

\* The jobs submitted so far; the per-job variables are sequences indexed by
\* job id that grow with each submit_job call.
Jobs == 1..nSubmitted
Workers == 1..NumWorkers

\* A worker waiting in rx.recv().
IdleWorker == [pc |-> "idle", job |-> 0, seg |-> 0]

\* Some run_worker task still holds a Receiver of the intake queue.
ReceiverAlive == \E w \in Workers : wk[w].pc # "dead"

PoolInit ==
    /\ queue = <<>>
    /\ nSubmitted = 0
    /\ wk = [w \in Workers |-> IdleWorker]
    /\ cons = <<>>
    /\ stageQ = <<>>
    /\ upd = <<>>
    /\ prodGone = <<>>
    /\ obs = <<>>
    /\ runs = <<>>
    /\ gaveUp = [w \in Workers |-> 0]
    /\ diedOn = [w \in Workers |-> 0]
    /\ sawBurst = FALSE

\* ---------------------------------------------------------------- Pool::submit_job
\* self.0.send(JobFut).await with the result ignored: the send waits while the
\* queue is full, and fails (dropping the JobFut and its sender) once every
\* receiver is gone, full queue or not. The caller gets the job handle
\* either way. At most `limit` jobs are submitted.
SubmitJob(limit) ==
    /\ nSubmitted < limit
    /\ Len(queue) < QueueCap \/ ~ReceiverAlive
    /\ nSubmitted' = nSubmitted + 1
    /\ cons' = Append(cons, "wait_job")
    /\ stageQ' = Append(stageQ, <<>>)
    /\ upd' = Append(upd, <<>>)
    /\ obs' = Append(obs, <<>>)
    /\ runs' = Append(runs, 0)
    /\ IF ReceiverAlive
       THEN /\ queue' = Append(queue, nSubmitted + 1)
            /\ prodGone' = Append(prodGone, FALSE)
       ELSE /\ prodGone' = Append(prodGone, TRUE)
            /\ UNCHANGED queue
    /\ UNCHANGED <<wk, gaveUp, diedOn>>
    /\ UNCHANGED <<chanVars, histVars, sawBurst, botVars>>

\* ---------------------------------------------------------------- the producer
\* Mutant of StageNote: finish_download and start_transcription post each
\* other's notification.
StageNoteSwapped(step) ==
    CASE step = "start_download" -> "DownloadStarted"
      [] step = "finish_download" -> "Transcribing"
      [] step = "start_transcription" -> "Downloaded"

\* The notification each step of run_transcription_process posts.
StageNote(step) ==
    CASE step = "start_download" -> "DownloadStarted"
      [] step = "finish_download" -> "Downloaded"
      [] step = "start_transcription" -> "Transcribing"

\* Mutant of OnConsumerGone: the failed send is unwrapped and the worker
\* task panics.
OnConsumerGonePanics == "dead"

\* `next.send(..).ok()?` found the receiver dropped: run_transcription_process
\* returns None, run_worker logs it and goes back to rx.recv().
OnConsumerGone == "idle"

\* The worker leaves job j at `pc`: its senders drop.
Release(w, j, pc) ==
    /\ wk' = [wk EXCEPT ![w] = [IdleWorker EXCEPT !.pc = pc]]
    /\ prodGone' = [prodGone EXCEPT ![j] = TRUE]

\* A stage send of worker w found the consumer of job j gone.
Abandon(w, j) ==
    /\ Release(w, j, OnConsumerGone)
    /\ gaveUp' = [gaveUp EXCEPT ![w] = j]

\* next.send(<the notification of `step`>): delivered and the worker goes on
\* at `nextPc`, or the consumer is gone and the job is abandoned.
SendStage(w, j, step, nextPc) ==
    IF cons[j] = "dropped"
    THEN /\ Abandon(w, j)
         /\ UNCHANGED stageQ
    ELSE /\ stageQ' = [stageQ EXCEPT ![j] = Append(@, <<StageNote(step), 0>>)]
         /\ wk' = [wk EXCEPT ![w] = [pc |-> nextPc, job |-> j, seg |-> 0]]
         /\ UNCHANGED <<prodGone, gaveUp>>

\* run_worker: rx.recv() yields a job; JobFut::start_download.
Dequeue(w) ==
    /\ wk[w].pc = "idle"
    /\ queue # <<>>
    /\ LET j == Head(queue) IN
       /\ queue' = Tail(queue)
       /\ runs' = [runs EXCEPT ![j] = @ + 1]
       /\ SendStage(w, j, "start_download", "download")
    /\ UNCHANGED <<nSubmitted, cons, upd, obs, diedOn>>
    /\ UNCHANGED <<chanVars, histVars, sawBurst, botVars>>

\* Mutant of FinishDownload: after a failure the error is sent but the job
\* goes on to the next stage.
FinishDownloadGoesOn(w, outcome) ==
    /\ wk[w].pc = "download"
    /\ LET j == wk[w].job IN
       IF cons[j] = "dropped"
       THEN Abandon(w, j) /\ UNCHANGED stageQ
       ELSE /\ stageQ' = [stageQ EXCEPT ![j] = Append(@,
                   IF outcome = "ok" THEN <<"Downloaded", 0>>
                   ELSE <<"DownloadErr", 0>>)]
            /\ wk' = [wk EXCEPT ![w].pc = "downloaded"]
            /\ UNCHANGED <<prodGone, gaveUp>>
    /\ UNCHANGED <<queue, nSubmitted, cons, upd, obs, runs, diedOn>>
    /\ UNCHANGED <<chanVars, histVars, sawBurst, botVars>>

\* DownloadStartedFut::finish_download returns. "fetch_fail": download_file
\* failed, the error is sent and the job ends. "decode_fail": ffmpeg or
\* WavReader::open failed and its unwrap() panics in the worker task.
\* "ok": the decoded audio is ready and Ok(rx) is sent.
FinishDownload(w, outcome) ==
    /\ wk[w].pc = "download"
    /\ LET j == wk[w].job IN
       CASE outcome = "fetch_fail" ->
              /\ IF cons[j] = "dropped"
                 THEN /\ Abandon(w, j)
                      /\ UNCHANGED stageQ
                 ELSE /\ stageQ' = [stageQ EXCEPT
                             ![j] = Append(@, <<"DownloadErr", 0>>)]
                      /\ Release(w, j, "idle")
                      /\ UNCHANGED gaveUp
              /\ UNCHANGED diedOn
         [] outcome = "decode_fail" ->
              /\ Release(w, j, "dead")
              /\ diedOn' = [diedOn EXCEPT ![w] = j]
              /\ UNCHANGED <<stageQ, gaveUp>>
         [] outcome = "ok" ->
              /\ SendStage(w, j, "finish_download", "downloaded")
              /\ UNCHANGED diedOn
    /\ UNCHANGED <<queue, nSubmitted, cons, upd, obs, runs>>
    /\ UNCHANGED <<chanVars, histVars, sawBurst, botVars>>

\* DownloadingFut::start_transcription.
StartTranscription(w) ==
    /\ wk[w].pc = "downloaded"
    /\ SendStage(w, wk[w].job, "start_transcription", "engine")
    /\ UNCHANGED <<queue, nSubmitted, cons, upd, obs, runs, diedOn>>
    /\ UNCHANGED <<chanVars, histVars, sawBurst, botVars>>

\* Mutant of PostUpdate: the update goes to the front of the channel.
PostUpdateInFront(j, m) ==
    upd' = [upd EXCEPT ![j] = IF cons[j] = "dropped" THEN @ ELSE <<m>> \o @]

\* msg_handle.send(m): nothing is queued once the receiver is dropped.
PostUpdate(j, m) ==
    upd' = [upd EXCEPT ![j] = IF cons[j] = "dropped" THEN @ ELSE Append(@, m)]

\* Mutant of CanPost: the update channel is unbounded.
CanPostAlways(j) == TRUE

\* Mutant of CanPost: a send to a dropped receiver waits for room too.
CanPostBlocksOnDropped(j) == cons[j] # "dropped" /\ Len(upd[j]) < UpdCap

\* The send can complete: the channel has room, or the receiver is dropped.
CanPost(j) == cons[j] = "dropped" \/ Len(upd[j]) < UpdCap

\* Mutant of EnginePanics: the error is sent but the job is not ended.
EnginePanicsGoesOn(w) ==
    /\ wk[w].pc = "engine"
    /\ CanPost(wk[w].job)
    /\ PostUpdate(wk[w].job, <<"Err", 0>>)
    /\ UNCHANGED <<queue, nSubmitted, wk, cons, stageQ, prodGone, obs, runs,
                   gaveUp, diedOn>>
    /\ UNCHANGED <<chanVars, histVars, sawBurst, botVars>>

\* Mutant of EnginePanics: the panic is not caught at the spawn_blocking
\* boundary and takes the worker task down; nothing is sent.
EnginePanicsUncaught(w) ==
    /\ wk[w].pc = "engine"
    /\ Release(w, wk[w].job, "dead")
    /\ UNCHANGED <<queue, nSubmitted, cons, stageQ, upd, obs, runs, gaveUp, diedOn>>
    /\ UNCHANGED <<chanVars, histVars, sawBurst, botVars>>

\* TranscribingFut::finish_transcription, when the spawn_blocking task panics
\* in run_sync_process (one of its unwrap()s): the JoinError becomes
\* Err(WorkerDied), sent with `.ok()?`.
EnginePanics(w) ==
    /\ wk[w].pc = "engine"
    /\ LET j == wk[w].job IN
       /\ CanPost(j)
       /\ PostUpdate(j, <<"Err", 0>>)
       /\ IF cons[j] = "dropped"
          THEN Abandon(w, j)
          ELSE Release(w, j, "idle") /\ UNCHANGED gaveUp
    /\ UNCHANGED <<queue, nSubmitted, cons, stageQ, obs, runs, diedOn>>
    /\ UNCHANGED <<chanVars, histVars, sawBurst, botVars>>

\* run_sync_process after state.full: one more segment is sent as a Line
\* (`let _ = msg_handle.send(..).await`, a failure is ignored). The engine
\* produced at most `limit` segments.
EmitLine(w, limit) ==
    /\ wk[w].pc = "engine"
    /\ wk[w].seg < limit
    /\ LET j == wk[w].job IN
       /\ CanPost(j)
       /\ PostUpdate(j, <<"Line", wk[w].seg + 1>>)
       /\ wk' = [wk EXCEPT ![w].seg = @ + 1]
    /\ UNCHANGED <<queue, nSubmitted, cons, stageQ, prodGone, obs, runs,
                   gaveUp, diedOn>>
    /\ UNCHANGED <<chanVars, histVars, sawBurst, botVars>>

\* Mutant of EmitEof: Eof is sent but the segment loop goes on.
EmitEofKeepsGoing(w) ==
    /\ wk[w].pc = "engine"
    /\ CanPost(wk[w].job)
    /\ PostUpdate(wk[w].job, <<"Eof", 0>>)
    /\ UNCHANGED <<queue, nSubmitted, wk, cons, stageQ, prodGone, obs, runs,
                   gaveUp, diedOn>>
    /\ UNCHANGED <<chanVars, histVars, sawBurst, botVars>>

\* run_sync_process after the last segment: Update::Eof is sent, the failure
\* ignored, and finish_transcription returns Some(()).
EmitEof(w) ==
    /\ wk[w].pc = "engine"
    /\ LET j == wk[w].job IN
       /\ CanPost(j)
       /\ PostUpdate(j, <<"Eof", 0>>)
       /\ Release(w, j, "idle")
    /\ UNCHANGED <<queue, nSubmitted, cons, stageQ, obs, runs, gaveUp, diedOn>>
    /\ UNCHANGED <<chanVars, histVars, sawBurst, botVars>>

\* ---------------------------------------------------------------- the consumer
\* What the consumer holds after receiving stage notification `kind`
\* (try_handle_voice_message: job.await, download_started.await??,
\* downloading.await??).
AfterStage(kind) ==
    CASE kind = "DownloadStarted" -> "wait_download"
      [] kind = "Downloaded" -> "wait_transcribing"
      [] kind = "DownloadErr" -> "errored"
      [] kind = "Transcribing" -> "next"

\* The consumer awaits its current stage handle: it receives the notification,
\* or RecvError (mapped to WorkerDied) when the sender was dropped.
ConsAwait(j) ==
    /\ j \in Jobs
    /\ cons[j] \in {"wait_job", "wait_download", "wait_transcribing"}
    /\ IF stageQ[j] # <<>>
       THEN /\ obs' = [obs EXCEPT ![j] = Append(@, Head(stageQ[j]))]
            /\ stageQ' = [stageQ EXCEPT ![j] = Tail(@)]
            /\ cons' = [cons EXCEPT ![j] = AfterStage(Head(stageQ[j])[1])]
       ELSE /\ prodGone[j]
            /\ obs' = [obs EXCEPT ![j] = Append(@, <<"WorkerDied", 0>>)]
            /\ cons' = [cons EXCEPT ![j] = "errored"]
            /\ UNCHANGED stageQ
    /\ UNCHANGED <<queue, nSubmitted, wk, upd, prodGone, runs, gaveUp, diedOn>>
    /\ UNCHANGED <<chanVars, histVars, sawBurst, botVars>>

\* Mutant of LineText: the update carries every segment so far.
LineTextAccumulated(k) == [i \in 1..k |-> i]

\* What next() returns for Update::Line of segment k, as the list of the
\* segments whose text it holds: `Update::Line(line) => Some(line)`, the Line
\* built from that one SegmentCallbackData.
LineText(k) == <<k>>

\* Mutant of ConsNext: the Lines already queued are drained and only the most
\* recent one is returned.
ConsNextKeepsNewest(j) ==
    /\ j \in Jobs
    /\ cons[j] = "next"
    /\ IF upd[j] # <<>>
       THEN LET n == Len(SelectSeq(upd[j], LAMBDA m : m[1] = "Line"))
                k == IF n >= 2 THEN n ELSE 1
            IN  /\ obs' = [obs EXCEPT ![j] = Append(@, upd[j][k])]
                /\ upd' = [upd EXCEPT ![j] = SubSeq(@, k + 1, Len(@))]
                /\ cons' = [cons EXCEPT ![j] =
                       CASE upd[j][k][1] = "Line" -> "next"
                         [] upd[j][k][1] = "Eof" -> "finished"
                         [] upd[j][k][1] = "Err" -> "errored"]
       ELSE /\ prodGone[j]
            /\ obs' = [obs EXCEPT ![j] = Append(@, <<"WorkerDied", 0>>)]
            /\ cons' = [cons EXCEPT ![j] = "errored"]
            /\ UNCHANGED upd
    /\ UNCHANGED <<queue, nSubmitted, wk, stageQ, prodGone, runs, gaveUp, diedOn>>
    /\ sawBurst' = (sawBurst \/ (Len(upd[j]) >= 2 /\ upd[j][2][1] = "Line"))
    /\ UNCHANGED <<chanVars, histVars, botVars>>

\* Transcribing::next: one recv() on the update channel.
ConsNext(j) ==
    /\ j \in Jobs
    /\ cons[j] = "next"
    /\ IF upd[j] # <<>>
       THEN /\ obs' = [obs EXCEPT ![j] = Append(@, Head(upd[j]))]
            /\ upd' = [upd EXCEPT ![j] = Tail(@)]
            /\ cons' = [cons EXCEPT ![j] =
                   CASE Head(upd[j])[1] = "Line" -> "next"
                     [] Head(upd[j])[1] = "Eof" -> "finished"
                     [] Head(upd[j])[1] = "Err" -> "errored"]
       ELSE /\ prodGone[j]
            /\ obs' = [obs EXCEPT ![j] = Append(@, <<"WorkerDied", 0>>)]
            /\ cons' = [cons EXCEPT ![j] = "errored"]
            /\ UNCHANGED upd
    /\ UNCHANGED <<queue, nSubmitted, wk, stageQ, prodGone, runs, gaveUp, diedOn>>
    /\ sawBurst' = (sawBurst \/ (Len(upd[j]) >= 2 /\ upd[j][2][1] = "Line"))
    /\ UNCHANGED <<chanVars, histVars, botVars>>

\* The consumer drops the handle it holds; what was sent to it is dropped too.
ConsDrop(j) ==
    /\ j \in Jobs
    /\ cons[j] \in {"wait_job", "wait_download", "wait_transcribing", "next"}
    /\ cons' = [cons EXCEPT ![j] = "dropped"]
    /\ stageQ' = [stageQ EXCEPT ![j] = <<>>]
    /\ upd' = [upd EXCEPT ![j] = <<>>]
    /\ UNCHANGED <<queue, nSubmitted, wk, prodGone, obs, runs, gaveUp, diedOn>>
    /\ UNCHANGED <<chanVars, histVars, sawBurst, botVars>>

\* ================================================================ the database
MaxChats == 2
MaxUsers == 2
MaxDbOps == 3

ChatIds == 1..MaxChats
UserIds == 1..MaxUsers

\* TranscribeTrigger; Never is the default.
Triggers == {"Never", "SummonBySelf", "SummonByAny", "Always"}

\* Option<SidecarAttach> as <<kind, to>>.
NoAttach == <<"None", 0>>
has_sidecar(to) == <<"HasSidecar", to>>
is_sidecar(to) == <<"IsSidecar", to>>

\* Chat::new and User::default().
NewChat == [attach |-> NoAttach]
DefaultUser == [trusted |-> FALSE, trigger |-> "Never"]

\* BTreeMap: a function on the keys it holds; contains_key and insert.
Has(map, k) == k \in DOMAIN map
Put(map, k, v) == [x \in DOMAIN map \cup {k} |-> IF x = k THEN v ELSE map[x]]

\* A message text as format!() builds it: the head and the lines below it.
NoText == [head |-> <<>>, lines |-> <<>>, more |-> FALSE]

\* No transcription was asked for.
NoAsk == [mode |-> "none", trigger |-> "Never", self |-> FALSE]

\* Inner::default()
DefaultInner == [chats |-> <<>>, users |-> <<>>]

\* The file as ron::ser::to_string_pretty writes it and Db::load reads it.
NoFile == [state |-> "absent", data |-> DefaultInner]
TornFile == [state |-> "torn", data |-> DefaultInner]
Serialized(i) == [state |-> "ron", data |-> i]

\* Db::load: a missing file gives the default database.
Load(file) == IF file.state = "absent" THEN DefaultInner ELSE file.data

\* A database file that names one trusted user and nothing else.
AdminFile ==
    Serialized([DefaultInner EXCEPT
        !.users = Put(@, 1, [trusted |-> TRUE, trigger |-> "Never"])])

\* Database files that name two trusted users, the second with the trigger t.
SeedFiles ==
    {Serialized([DefaultInner EXCEPT
         !.users = Put(Put(@, 1, [trusted |-> TRUE, trigger |-> "Never"]),
                       MaxUsers, [trusted |-> TRUE, trigger |-> t])])
       : t \in Triggers}

BotInit ==
    /\ disk = NoFile
    /\ inner = Load(NoFile)
    /\ dbRet = "none"
    /\ nDbOps = 0
    /\ nMsgs = 0
    /\ hRet = "none"
    /\ hTrusted = FALSE
    /\ hCmd = "none"
    /\ hAsk = NoAsk
    /\ hJob = FALSE
    /\ duration_secs = 0
    /\ maybe_sidecar = FALSE
    /\ transcription = <<>>
    /\ status = ""
    /\ preview = NoText
    /\ multipart = <<>>

\* What a closure passed to dump_after returns, with the database it left.
FOk(i) == [ok |-> TRUE, new |-> i, err |-> "Ok"]
FErr(i, e) == [ok |-> FALSE, new |-> i, err |-> e]

\* The closure of update_metadata; from = 0 is a message without a sender.
FUpdateMetadata(i, c, from) ==
    LET withChat == IF Has(i.chats, c) THEN i
                    ELSE [i EXCEPT !.chats = Put(@, c, NewChat)]
    IN  FOk(IF from = 0 \/ Has(i.users, from)
            THEN withChat
            ELSE [withChat EXCEPT !.users = Put(@, from, DefaultUser)])

\* The closure of attach_sidecar: the two writes happen one after the other.
FAttachSidecar(i, c, s) ==
    IF i.chats[c].attach # NoAttach THEN FErr(i, "ChatAlreadyHasAttach")
    ELSE IF i.chats[s].attach # NoAttach THEN FErr(i, "SidecarAlreadyHasAttach")
    ELSE LET first == [i EXCEPT !.chats[c].attach = has_sidecar(s)]
         IN  FOk([first EXCEPT !.chats[s].attach = is_sidecar(c)])

\* The closure of detach_sidecar: take() empties the chat's side first.
FDetachSidecar(i, c) ==
    IF ~Has(i.chats, c) THEN FErr(i, "MissingChat")
    ELSE IF i.chats[c].attach = NoAttach THEN FErr(i, "MissingSidecarAttach")
    ELSE LET to == i.chats[c].attach[2]
             taken == [i EXCEPT !.chats[c].attach = NoAttach]
         IN  IF ~Has(taken.chats, to) THEN FErr(taken, "Corrupt")
             ELSE IF taken.chats[to].attach = NoAttach
                  THEN FErr(taken, "Corrupt")
                  ELSE FOk([taken EXCEPT !.chats[to].attach = NoAttach])

\* The closure of set_transcribe_trigger.
FSetTranscribeTrigger(i, u, t) ==
    IF ~Has(i.users, u) THEN FErr(i, "MissingUser")
    ELSE FOk([i EXCEPT !.users[u].trigger = t])

\* The closure of add_trusted_user.
FAddTrustedUser(i, u) ==
    LET entry == IF Has(i.users, u) THEN i.users[u] ELSE DefaultUser
    IN  FOk([i EXCEPT !.users = Put(@, u, [entry EXCEPT !.trusted = TRUE])])

\* What dump_after leaves in memory when the closure failed.
RolledBackToDefault(prev, left) == DefaultInner
RolledBack(prev, left) == prev

\* What dump_after leaves in memory when serializing or writing failed.
AfterFailedDump(prev, new) == new

\* How serializing and writing the file can end.
DumpOutcomes == {"ok", "FailedSerialize", "FailedWrite", "TornWrite"}

\* dump_after, under the write lock from the clone to the return: what it
\* leaves in memory and in the file, and what it returns.
Dumped(i, file, out, io) ==
    IF ~out.ok
    THEN [inner |-> RolledBack(i, out.new), disk |-> file, ret |-> out.err]
    ELSE IF out.new = i
    THEN [inner |-> i, disk |-> file, ret |-> "Ok"]
    ELSE IF io = "ok"
    THEN [inner |-> out.new, disk |-> Serialized(out.new), ret |-> "Ok"]
    ELSE [inner |-> AfterFailedDump(i, out.new),
          disk |-> IF io = "TornWrite" THEN TornFile ELSE file,
          ret |-> IF io = "TornWrite" THEN "FailedWrite" ELSE io]

\* One call of a mutating method of Db.
DumpAfter(out, io) ==
    /\ nDbOps < MaxDbOps
    /\ nDbOps' = nDbOps + 1
    /\ \E r \in {Dumped(inner, disk, out, io)} :
           /\ inner' = r.inner
           /\ disk' = r.disk
           /\ dbRet' = r.ret

\* Db::load at start-up, from a file that names a trusted user.
LoadDb(file) ==
    /\ nDbOps = 0 /\ dbRet = "none" /\ disk = NoFile
    /\ disk' = file
    /\ inner' = Load(file)
    /\ dbRet' = "loaded"
    /\ UNCHANGED nDbOps

update_metadata(c, from, io) == DumpAfter(FUpdateMetadata(inner, c, from), io)

\* main.rs calls attach_sidecar with the chat of the command, which
\* update_metadata has added, and a chat the database holds.
attach_sidecar(c, s, io) ==
    /\ Has(inner.chats, c) /\ Has(inner.chats, s)
    /\ DumpAfter(FAttachSidecar(inner, c, s), io)

detach_sidecar(c, io) == DumpAfter(FDetachSidecar(inner, c), io)

set_transcribe_trigger(u, t, io) ==
    DumpAfter(FSetTranscribeTrigger(inner, u, t), io)

add_trusted_user(u, io) == DumpAfter(FAddTrustedUser(inner, u), io)

\* ================================================================ the handler
MaxMsgs == 2

\* The commands of command::Command that try_handle_command matches on.
Commands == {"Vroom", "Transcribe", "AttachSidecar", "DetachSidecar",
             "GetTrigger", "SetTrigger", "AddUser"}

\* What RelevantMsgKind::try_from makes of a message that is no command:
\* plain text (UnknownCommand, WrongBotName), a known command whose arguments
\* do not parse, a voice message, anything else.
OtherKinds == {"text", "badcommand", "voice", "other"}

\* DbUser::is_trusted, on the database i.
IsTrusted(i, u) == i.users[u].trusted

\* try_handle_message: a voice message is transcribed without a summon.
AutoAllowed(trigger) == trigger = "Always"

\* try_handle_command, Transcribe: the match on the author's trigger.
SummonAllowedUnlessNever(trigger, self) == trigger # "Never"
SummonAllowed(trigger, self) ==
    CASE trigger = "Never" -> FALSE
      [] trigger = "SummonBySelf" -> self
      [] trigger \in {"SummonByAny", "Always"} -> TRUE

\* The state a handler leaves, and what it returns.
Outcome(st, ret, cmd, ask, job) ==
    [inner |-> st.inner, disk |-> st.disk, dbRet |-> st.ret, ops |-> st.ops,
     ret |-> ret, cmd |-> cmd, ask |-> ask, job |-> job]

\* A second dump_after call of the same handler.
ThenDump(st, out, io) ==
    LET r == Dumped(st.inner, st.disk, out, io)
    IN  [inner |-> r.inner, disk |-> r.disk, ret |-> r.ret, ops |-> st.ops + 1]

\* try_handle_voice_message up to submit_job: nothing is done in a chat
\* that is a sidecar.
TryHandleVoiceMessage(st, m, cmd, ask) ==
    IF st.inner.chats[m.chat].attach[1] = "IsSidecar"
    THEN Outcome(st, "Ignore", cmd, ask, FALSE)
    ELSE Outcome(st, "Ok", cmd, ask, TRUE)

\* try_handle_command. m.found is what get_chat_ids_by_public_title gives:
\* 0 for no chat, a chat id, MaxChats + 1 for more than one chat.
\* m.parent is the author of the message replied to: -1 without a reply,
\* 0 for a reply to a message without a sender.
TryHandleCommand(st, m, io) ==
    LET i == st.inner
        run(st2) == Outcome(st2, st2.ret, m.kind, NoAsk, FALSE)
    IN  CASE m.kind \in {"Vroom", "GetTrigger"} ->
                 Outcome(st, "Ok", m.kind, NoAsk, FALSE)
          [] m.kind = "Transcribe" ->
                 IF m.parent = -1 \/ ~m.pvoice
                 THEN Outcome(st, "ReplyNotVoice", m.kind, NoAsk, FALSE)
                 ELSE IF m.parent = 0 \/ ~Has(i.users, m.parent)
                 THEN Outcome(st, "ReplyUnknownAuthor", m.kind, NoAsk, FALSE)
                 ELSE LET trigger == i.users[m.parent].trigger
                          self == m.parent = m.from
                          ask == [mode |-> "summon", trigger |-> trigger,
                                  self |-> self]
                      IN  IF SummonAllowed(trigger, self)
                          THEN TryHandleVoiceMessage(st, m, m.kind, ask)
                          ELSE Outcome(st, "BadSummon", m.kind, ask, FALSE)
          [] m.kind = "AttachSidecar" ->
                 IF m.found = 0
                 THEN Outcome(st, "NoChatTitled", m.kind, NoAsk, FALSE)
                 ELSE IF m.found = MaxChats + 1
                 THEN Outcome(st, "AmbiguousChatTitle", m.kind, NoAsk, FALSE)
                 ELSE run(ThenDump(st, FAttachSidecar(i, m.chat, m.found), io))
          [] m.kind = "DetachSidecar" ->
                 run(ThenDump(st, FDetachSidecar(i, m.chat), io))
          [] m.kind = "SetTrigger" ->
                 run(ThenDump(st, FSetTranscribeTrigger(i, m.from, m.trigger), io))
          [] m.kind = "AddUser" ->
                 IF m.parent = -1
                 THEN Outcome(st, "NotReply", m.kind, NoAsk, FALSE)
                 ELSE IF m.parent = 0
                 THEN Outcome(st, "ReplyUnknownAuthor", m.kind, NoAsk, FALSE)
                 ELSE run(ThenDump(st, FAddTrustedUser(i, m.parent), io))

\* try_handle_message on the message m; io1 and io2 are how the dumps of
\* its database calls end.
TryHandleMessage(m, io1, io2) ==
    LET d == Dumped(inner, disk, FUpdateMetadata(inner, m.chat, m.from), io1)
        st == [inner |-> d.inner, disk |-> d.disk, ret |-> d.ret, ops |-> 1]
        none(ret) == Outcome(st, ret, "none", NoAsk, FALSE)
    IN  IF d.ret # "Ok" THEN none(d.ret)
        ELSE IF m.from = 0 THEN none("Ignore")
        ELSE IF m.kind \in {"text", "other"} THEN none("Ignore")
        ELSE IF m.kind = "badcommand" THEN none("CommandParseError")
        ELSE IF ~IsTrusted(st.inner, m.from) THEN none("Ignore")
        ELSE IF m.kind = "voice"
        THEN LET trigger == st.inner.users[m.from].trigger
                 ask == [mode |-> "auto", trigger |-> trigger, self |-> TRUE]
             IN  IF AutoAllowed(trigger)
                 THEN TryHandleVoiceMessage(st, m, "none", ask)
                 ELSE Outcome(st, "Ok", "none", ask, FALSE)
        ELSE TryHandleCommand(st, m, io2)

\* The sender of m is a trusted user of the database that holds m's metadata.
SenderTrusted(m) ==
    /\ m.from # 0
    /\ IsTrusted(FUpdateMetadata(inner, m.chat, m.from).new, m.from)

\* handle_message: one message, handled from its arrival to the return of
\* try_handle_message. A dump outcome other than "ok" is drawn only for a
\* dump that takes place.
HandleMessage(m, io1, io2) ==
    /\ nMsgs < MaxMsgs
    /\ m.found \in ChatIds => Has(inner.chats, m.found) \/ m.found = m.chat
    /\ io1 # "ok" => FUpdateMetadata(inner, m.chat, m.from).new # inner
    /\ \E r \in {TryHandleMessage(m, io1, io2)} :
           /\ io2 # "ok" => r.ops = 2
           /\ inner' = r.inner
           /\ disk' = r.disk
           /\ dbRet' = r.dbRet
           /\ nDbOps' = nDbOps + r.ops
           /\ hRet' = r.ret
           /\ hCmd' = r.cmd
           /\ hAsk' = r.ask
           /\ hJob' = r.job
    /\ hTrusted' = SenderTrusted(m)
    /\ nMsgs' = nMsgs + 1
    /\ UNCHANGED <<chanVars, histVars, poolVars, reflowVars>>

\* A message: sender (0: none), chat, kind, and the parts a command reads.
Msg(from, chat, kind, found, trigger, parent, pvoice) ==
    [from |-> from, chat |-> chat, kind |-> kind, found |-> found,
     trigger |-> trigger, parent |-> parent, pvoice |-> pvoice]

\* ================================================================ the transcript message
MaxParts == 2
MaxLines == 2

SHORT_MSG_CUTOFF_SECS == 45
LONG_MSG_CHUNK_CUTOFF_SECS == 240

\* Voice durations at both ends of each window of a part.
Durations ==
    {k * LONG_MSG_CHUNK_CUTOFF_SECS + d :
        k \in 0..(MaxParts - 1), d \in {0, LONG_MSG_CHUNK_CUTOFF_SECS - 1}}

\* End times of segments, in seconds: around the preview cut-off and at both
\* ends of each window, the one after the last part included (the engine's
\* last segment may end after the duration the chat reports).
EndTimes ==
    {k * LONG_MSG_CHUNK_CUTOFF_SECS + d :
        k \in 0..MaxParts,
        d \in {0, SHORT_MSG_CUTOFF_SECS - 1, SHORT_MSG_CUTOFF_SECS,
               LONG_MSG_CHUNK_CUTOFF_SECS - 1}}

\* Line::to_telegram_line: "mm:ss text".
to_telegram_line(line) ==
    <<line.start_secs \div 60, line.start_secs % 60, line.text>>

\* The lines a take_while / peek loop takes off the front of rest.
RECURSIVE TakeWhileBelow(_, _)
TakeWhileBelow(rest, limit) ==
    IF rest # <<>> /\ Head(rest).end_secs < limit
    THEN <<Head(rest)>> \o TakeWhileBelow(Tail(rest), limit)
    ELSE <<>>

\* The while loop of one chunk: the lines it moves from lines_iter.
ChunkLines(rest, limit) == TakeWhileBelow(rest, limit)

Formatted(lines) == [n \in 1..Len(lines) |-> to_telegram_line(lines[n])]

\* The for loop of reflow_message over the parts i..num_chunks: lines_iter
\* is rest, chunk_duration_limit is limit.
RECURSIVE ChunkTexts(_, _, _, _, _)
ChunkTexts(rest, limit, i, num_chunks, st) ==
    IF i > num_chunks THEN <<>>
    ELSE LET chunk_lines == ChunkLines(rest, limit)
         IN  <<[head |-> <<i, num_chunks, st>>,
                lines |-> Formatted(chunk_lines), more |-> FALSE]>>
             \o ChunkTexts(SubSeq(rest, Len(chunk_lines) + 1, Len(rest)),
                           limit + LONG_MSG_CHUNK_CUTOFF_SECS, i + 1,
                           num_chunks, st)

\* reflow_message: the texts it dispatches to the parts.
ReflowParts(lines, st, num_chunks) ==
    IF lines = <<>>
    THEN [i \in 1..num_chunks |->
             [head |-> <<i, num_chunks, st>>, lines |-> <<>>, more |-> FALSE]]
    ELSE ChunkTexts(lines, LONG_MSG_CHUNK_CUTOFF_SECS, 1, num_chunks, st)

\* reflow_message: the text it dispatches to the preview message.
ReflowPreview(lines, st) ==
    IF lines = <<>>
    THEN [head |-> <<st>>, lines |-> <<>>, more |-> FALSE]
    ELSE LET shown == TakeWhileBelow(lines, SHORT_MSG_CUTOFF_SECS)
         IN  [head |-> <<st, "Preview:">>, lines |-> Formatted(shown),
              more |-> Len(lines) > Len(shown)]

ReflowFrame == UNCHANGED <<chanVars, histVars, poolVars, dbVars, hVars>>

\* Transcription::start: one message per part, each holding the status.
TranscriptionStart(d, sidecar) ==
    /\ multipart = <<>>
    /\ duration_secs' = d
    /\ maybe_sidecar' = sidecar
    /\ status' = "Queued..."
    /\ transcription' = <<>>
    /\ LET num_parts == 1 + d \div LONG_MSG_CHUNK_CUTOFF_SECS
       IN  multipart' = [i \in 1..num_parts |->
                            [head |-> <<i, num_parts, "Queued...">>,
                             lines |-> <<>>, more |-> FALSE]]
    /\ preview' = IF sidecar
                  THEN [head |-> <<"Queued...">>, lines |-> <<>>,
                        more |-> FALSE]
                  ELSE preview
    /\ ReflowFrame

\* Transcription::update_status.
UpdateStatus(st) ==
    /\ multipart # <<>>
    /\ status # st
    /\ status' = st
    /\ UNCHANGED <<duration_secs, maybe_sidecar, transcription>>
    /\ multipart' = ReflowParts(transcription, st, Len(multipart))
    /\ preview' = IF maybe_sidecar THEN ReflowPreview(transcription, st)
                  ELSE preview
    /\ ReflowFrame

\* Transcription::push_line with the next segment of the engine: it starts
\* where the one before it ended and ends at e.
PushLine(e) ==
    /\ multipart # <<>>
    /\ Len(transcription) < MaxLines
    /\ LET start == IF transcription = <<>> THEN 0
                    ELSE transcription[Len(transcription)].end_secs
           line == [start_secs |-> start, end_secs |-> e,
                    text |-> Len(transcription) + 1]
       IN  /\ start <= e
           /\ transcription' = Append(transcription, line)
           /\ multipart' = ReflowParts(Append(transcription, line), status,
                                       Len(multipart))
           /\ preview' = IF maybe_sidecar
                         THEN ReflowPreview(Append(transcription, line), status)
                         ELSE preview
    /\ UNCHANGED <<duration_secs, maybe_sidecar, status>>
    /\ ReflowFrame

\* ================================================================ specifications
Init == ChanInit /\ PoolInit /\ BotInit

\* One message channel: the pool stands still.
Next == SendWorker \/ Caller \/ UpdateWorker \/ Tick

Spec == Init /\ [][Next]_vars

\* One message channel whose caller sends bursts.
BurstNext == SendWorker \/ BurstCaller \/ UpdateWorker \/ Tick

BurstSpec == Init /\ [][BurstNext]_vars

\* The scheduler runs every task that can take a step, the timer fires, and
\* the send and edit calls return.
FairSpec ==
    /\ Spec
    /\ WF_vars(SendWorker)
    /\ WF_vars(UpdateWorker)
    /\ WF_vars(FlushRecv)
    /\ WF_vars(Tick)

WorkerStep(w, segs) ==
    \/ Dequeue(w)
    \/ \E o \in {"fetch_fail", "decode_fail", "ok"} : FinishDownload(w, o)
    \/ StartTranscription(w)
    \/ EnginePanics(w)
    \/ EmitLine(w, segs)
    \/ EmitEof(w)

ConsumerStep(j) == ConsAwait(j) \/ ConsNext(j)

\* The pool and its jobs: the message channel stands still.
PoolNext ==
    \/ SubmitJob(MaxJobs)
    \/ \E w \in Workers : WorkerStep(w, MaxSegs)
    \/ \E j \in 1..MaxJobs : ConsumerStep(j) \/ ConsDrop(j)

PoolSpec == Init /\ [][PoolNext]_vars

\* The pool with more jobs submitted than it has workers.
OverloadNext ==
    \/ SubmitJob(MaxJobs + MaxOverload)
    \/ \E w \in Workers : WorkerStep(w, MaxSegs)
    \/ \E j \in 1..(MaxJobs + MaxOverload) : ConsumerStep(j) \/ ConsDrop(j)

\* Every worker task that can take a step is run, the download and the engine
\* call return, and a consumer that holds a handle keeps awaiting it.
OverloadFairSpec ==
    /\ Init /\ [][OverloadNext]_vars
    /\ \A w \in Workers : WF_vars(WorkerStep(w, MaxSegs))
    /\ \A j \in 1..(MaxJobs + MaxOverload) : WF_vars(ConsumerStep(j))

\* Few jobs with longer transcripts.
StreamNext ==
    \/ SubmitJob(MaxStreams)
    \/ \E w \in Workers : WorkerStep(w, MaxStreamSegs)
    \/ \E j \in 1..MaxStreams : ConsumerStep(j) \/ ConsDrop(j)

StreamSpec == Init /\ [][StreamNext]_vars

\* Long transcripts with a consumer that may lag behind the engine. Each
\* transcript has its own update channel; they are produced one after the
\* other, by the first worker.
SlowNext ==
    \/ SubmitJob(MaxStreams)
    \/ WorkerStep(1, UpdCap + MaxBacklog)
    \/ \E j \in 1..MaxStreams : ConsumerStep(j) \/ ConsDrop(j)

SlowSpec == Init /\ [][SlowNext]_vars

\* The intake queue under load: jobs keep coming while their consumers wait,
\* and every download fails, so that workers come back for the next job or
\* die.
IntakeNext ==
    \/ SubmitJob(QueueCap + NumWorkers + MaxBlocked)
    \/ \E w \in Workers : Dequeue(w)
    \/ \E w \in Workers :
           \E o \in {"fetch_fail", "decode_fail"} : FinishDownload(w, o)

IntakeSpec == Init /\ [][IntakeNext]_vars


\* The database alone: the channel and the pool stand still.
DbFrame == UNCHANGED <<chanVars, histVars, poolVars, hVars, reflowVars>>

DbNext ==
    \/ LoadDb(AdminFile) /\ DbFrame
    \/ \E io \in DumpOutcomes, c \in ChatIds, from \in 0..MaxUsers :
           update_metadata(c, from, io) /\ DbFrame
    \/ \E io \in DumpOutcomes, c \in ChatIds, s \in ChatIds :
           attach_sidecar(c, s, io) /\ DbFrame
    \/ \E io \in DumpOutcomes, c \in ChatIds :
           detach_sidecar(c, io) /\ DbFrame
    \/ \E io \in DumpOutcomes, u \in UserIds, t \in Triggers :
           set_transcribe_trigger(u, t, io) /\ DbFrame
    \/ \E io \in DumpOutcomes, u \in UserIds :
           add_trusted_user(u, io) /\ DbFrame

DbSpec == Init /\ [][DbNext]_vars

\* How a dump ends, as far as a handler can tell.
HandlerDumps == {"ok", "FailedWrite"}

\* The bot's message handler over the database: one disjunct per kind of
\* message.
BotNext ==
    \/ \E file \in SeedFiles : LoadDb(file) /\ DbFrame
    \/ \E from \in 0..MaxUsers, chat \in ChatIds, kind \in OtherKinds,
          io1 \in HandlerDumps :
           HandleMessage(Msg(from, chat, kind, 0, "Never", -1, FALSE),
                         io1, "ok")
    \/ \E from \in 0..MaxUsers, chat \in ChatIds,
          kind \in {"Vroom", "GetTrigger"}, io1 \in HandlerDumps :
           HandleMessage(Msg(from, chat, kind, 0, "Never", -1, FALSE),
                         io1, "ok")
    \/ \E from \in 0..MaxUsers, chat \in ChatIds, parent \in -1..MaxUsers,
          pvoice \in BOOLEAN, io1 \in HandlerDumps :
           HandleMessage(Msg(from, chat, "Transcribe", 0, "Never", parent,
                             pvoice), io1, "ok")
    \/ \E from \in 0..MaxUsers, chat \in ChatIds, found \in 0..(MaxChats + 1),
          io1 \in HandlerDumps, io2 \in HandlerDumps :
           HandleMessage(Msg(from, chat, "AttachSidecar", found, "Never", -1,
                             FALSE), io1, io2)
    \/ \E from \in 0..MaxUsers, chat \in ChatIds,
          io1 \in HandlerDumps, io2 \in HandlerDumps :
           HandleMessage(Msg(from, chat, "DetachSidecar", 0, "Never", -1,
                             FALSE), io1, io2)
    \/ \E from \in 0..MaxUsers, chat \in ChatIds, t \in Triggers,
          io1 \in HandlerDumps, io2 \in HandlerDumps :
           HandleMessage(Msg(from, chat, "SetTrigger", 0, t, -1, FALSE),
                         io1, io2)
    \/ \E from \in 0..MaxUsers, chat \in ChatIds, parent \in -1..MaxUsers,
          io1 \in HandlerDumps, io2 \in HandlerDumps :
           HandleMessage(Msg(from, chat, "AddUser", 0, "Never", parent, FALSE),
                         io1, io2)

BotSpec == Init /\ [][BotNext]_vars

\* One Transcription: the message parts as the transcript grows.
ReflowNext ==
    \/ \E d \in Durations, sidecar \in BOOLEAN : TranscriptionStart(d, sidecar)
    \/ \E st \in {"Transcribing...", ""} : UpdateStatus(st)
    \/ \E e \in EndTimes : PushLine(e)

ReflowSpec == Init /\ [][ReflowNext]_vars

\* ================================================================ claims
\* A flush() or close() call has returned and no later call is under way.
FlushReturned ==
    /\ lastRet.op \in {"flush", "close"}
    /\ callerPc \in {"idle", "dropped"}

\* C1, as stated: whenever flush() has returned, every Edit request sent on
\* the handle before that flush has been applied or skipped by the update
\* worker (its edit call, if any, has come back).
C1_FlushReturnsOnlyAfterResolved ==
    FlushReturned => nResolved >= sentAtFlush

\* C1, amended: whenever flush() has returned Ok, every Edit request sent
\* before that flush has been applied or skipped; flush() returns Err, with
\* earlier requests never resolved, only when the initial send failed.
C1_FlushOkOnlyAfterResolved ==
    FlushReturned =>
        IF lastRet.ok THEN nResolved >= sentAtFlush ELSE sendSt = "failed"

\* C1 witness: flush() returned Ok after two updates, one of whose edit calls
\* had failed.
C1_Witness ==
    /\ FlushReturned
    /\ lastRet.ok
    /\ sentAtFlush >= 2
    /\ nResolved = sentAtFlush
    /\ editFails >= 1

\* C2: the texts the worker received in one debounce window lead to no edit
\* call while the window is open, and once it is settled to exactly one edit
\* call carrying the last received text, or to none when that text equals the
\* last-applied text.
C2_OneEditPerWindow ==
    winTexts # <<>> =>
        IF wPc = "debounce"
        THEN winEdits = <<>>
        ELSE winEdits = IF winTexts[Len(winTexts)] = winApplied
                        THEN <<>>
                        ELSE <<winTexts[Len(winTexts)]>>

\* C2 witness: a settled window of two updates that differ, with its one edit
\* call.
C2_Witness ==
    /\ wPc = "recv"
    /\ Len(winTexts) = 2
    /\ winTexts[1] # winTexts[2]
    /\ winEdits = <<winTexts[2]>>

\* C3: once the initial send has succeeded, a flush() (or close()) call that
\* is waiting eventually returns, whatever edit calls failed.
C3_FlushEventuallyReturns ==
    (callerPc \in {"flushing", "closing"} /\ sendSt = "spawned")
        ~> (callerPc \notin {"flushing", "closing"})

\* C3 witness: a flush() that captured the error of a failed edit call has
\* returned.
C3_Witness ==
    /\ callerPc = "idle"
    /\ lastRet.op = "flush"
    /\ sendSt = "spawned"
    /\ editFails >= 1
    /\ delayed_error # NoError

\* C4: a flush() that received the error of a failed edit call returns that
\* error.
C4_FlushReturnsEditError ==
    (FlushReturned /\ delayed_error # NoError) =>
        (~lastRet.ok /\ lastRet.err = delayed_error)

\* C5: when flush() returns Ok after some dispatch_edit_text calls and no
\* handle call has returned an error, the remote message shows the most
\* recently requested text.
C5_FlushedTextOrError ==
    (FlushReturned /\ lastRet.ok /\ lastReq # 0 /\ ~errReported) =>
        remote = lastReq

\* C6: when close() has returned Ok, every Edit request sent on the handle has
\* been applied or skipped, and the last dispatched text is the text of the
\* last edit call or equals the last-applied text.
C6_CloseLosesNoEdit ==
    (lastRet.op = "close" /\ lastRet.ok) =>
        /\ nResolved = nSent
        /\ wPc \in {"recv", "done"}
        /\ lastReq # 0 =>
            /\ current_text = lastReq
            /\ \/ editLog # <<>> /\ editLog[Len(editLog)] = lastReq
               \/ winEdits = <<>>

\* C6 witness: close() returned Ok after two updates, the last of which
\* went out in an edit call.
C6_Witness ==
    /\ lastRet.op = "close"
    /\ lastRet.ok
    /\ nSent = 2
    /\ editLog # <<>>
    /\ editLog[Len(editLog)] = lastReq

\* C7: a flush() begun on a live channel with no pending text update (no Edit
\* queued, the worker neither waiting out a debounce window nor in an edit
\* call) returns Ok, and no edit call is issued during it.
C7_IdleFlushNoEdit ==
    (FlushReturned /\ idleAtFlush /\ sendSt = "spawned") =>
        /\ lastRet.ok
        /\ lastRet.err = NoError
        /\ Len(editLog) = editsAtFlush

\* C7 witness: such a flush() has returned on a channel that had already
\* carried an edit call.
C7_Witness ==
    /\ FlushReturned
    /\ lastRet.op = "flush"
    /\ idleAtFlush
    /\ sendSt = "spawned"
    /\ editsAtFlush >= 1
    /\ Len(editLog) = editsAtFlush

\* ---------------------------------------------------------------- C8
\* Everything sent to the consumer of job j, in the order it was sent: what it
\* has received, then what is still in flight.
Delivered(j) == obs[j] \o stageQ[j] \o upd[j]

\* Notifications after which nothing more is delivered.
Terminal == {"DownloadErr", "Eof", "Err", "WorkerDied"}

\* s is a prefix of DownloadStarted, Downloaded (or a download error),
\* Transcribing, Line 1, Line 2, .., Eof (or an error), cut short at most by
\* the worker's death.
StageOrder(s) ==
    \A i \in 1..Len(s) :
        /\ i < Len(s) => s[i][1] \notin Terminal
        /\ \/ s[i][1] = "WorkerDied"
           \/ i = 1 /\ s[i][1] = "DownloadStarted"
           \/ i = 2 /\ s[i][1] \in {"Downloaded", "DownloadErr"}
           \/ i = 3 /\ s[i][1] = "Transcribing"
           \/ i > 3 /\ s[i][1] \in {"Eof", "Err"}
           \/ i > 3 /\ s[i] = <<"Line", i - 3>>

\* C8: within one job the consumer is sent, and so observes, the stage
\* notifications in the order DownloadStarted, Downloaded (or a download
\* error), Transcribing, the transcript updates, then the end or an error;
\* each stage notification occurs at most once (it has one position in the
\* order), and nothing follows a terminal one.
C8_StagesInOrder == \A j \in Jobs : StageOrder(Delivered(j))

\* A consumer has observed a whole job: all three stages, a line and the end.
C8_Witness ==
    \E j \in Jobs :
        obs[j] = << <<"DownloadStarted", 0>>, <<"Downloaded", 0>>,
                    <<"Transcribing", 0>>, <<"Line", 1>>, <<"Eof", 0>> >>

\* ---------------------------------------------------------------- C9
\* C9: every submitted job is eventually dequeued by a worker, and never by
\* two, also when more jobs are submitted than there are workers.
C9_EveryJobDequeuedOnce ==
    /\ \A j \in 1..(MaxJobs + MaxOverload) :
           (j \in Jobs) ~> (j \in Jobs /\ runs[j] = 1)
    /\ [](\A j \in Jobs : runs[j] <= 1)

Last(s) == s[Len(s)]

\* C11: a worker never dies in the blocking transcription step; when it
\* leaves that step it is back in rx.recv(), and unless the consumer is gone
\* the last thing it sent is the end of the transcript or the error of the
\* panic. That error travels on the update channel only, so it reaches the
\* consumer through next(), as the last thing delivered.
C11_EnginePanicIsTerminalError ==
    /\ [][\A w \in Workers :
             (wk[w].pc = "engine" /\ wk'[w] # wk[w]) =>
                 /\ wk'[w].pc \in {"engine", "idle"}
                 /\ (wk'[w].pc = "idle" /\ cons[wk[w].job] # "dropped") =>
                        /\ wk'[w] = IdleWorker
                        /\ upd'[wk[w].job] # <<>>
                        /\ Last(upd'[wk[w].job])[1] \in {"Eof", "Err"}
       ]_vars
    /\ [](\A j \in Jobs :
             /\ \A i \in 1..Len(stageQ[j]) : stageQ[j][i][1] # "Err"
             /\ \A i \in 1..Len(upd[j]) : upd[j][i][1] = "Err" => i = Len(upd[j])
             /\ \A i \in 1..Len(obs[j]) :
                    obs[j][i][1] = "Err" => i = Len(obs[j]) /\ cons[j] = "errored")

\* The consumers of two jobs each got the engine's error from next(), and
\* both workers are alive, waiting for the next job.
C11_Witness ==
    /\ nSubmitted = 2
    /\ \A j \in Jobs : obs[j] # <<>> /\ Last(obs[j])[1] = "Err"
    /\ \A w \in Workers : wk[w] = IdleWorker /\ diedOn[w] = 0

\* ---------------------------------------------------------------- C12
\* The download of job j failed: its consumer was sent the fetch error, or
\* the decode panicked in the worker that ran it.
DownloadFailed(j) ==
    \/ \E i \in 1..Len(Delivered(j)) : Delivered(j)[i][1] = "DownloadErr"
    \/ \E w \in Workers : diedOn[w] = j

LinesOf(s) == SelectSeq(s, LAMBDA m : m[1] = "Line")

\* C13: the segments next() has returned for a job are the engine's segments
\* 1, 2, .. in that order, each once; and what the consumer has received only
\* ever grows at its end.
C13_SegmentsInEngineOrder ==
    /\ [](\A j \in Jobs :
             \A k \in 1..Len(LinesOf(obs[j])) : LinesOf(obs[j])[k][2] = k)
    /\ [][\A j \in Jobs :
             /\ Len(obs'[j]) >= Len(obs[j])
             /\ SubSeq(obs'[j], 1, Len(obs[j])) = obs[j]
       ]_vars

\* A consumer received two segments, in order, and then the end.
C13_Witness ==
    \E j \in Jobs :
        /\ LinesOf(obs[j]) = << <<"Line", 1>>, <<"Line", 2>> >>
        /\ cons[j] = "finished"

\* ---------------------------------------------------------------- C14
\* How many of the updates in s are the end of the transcript.
EofCount(s) == Len(SelectSeq(s, LAMBDA m : m[1] = "Eof"))

\* C14: next() has returned None (the consumer is finished) exactly when the
\* last thing it received is the Eof the producer posted; by then the
\* producer is done with the job and nothing it sent is still undelivered,
\* so every segment came before; and no job's consumer gets a second Eof.
C14_NoneOnlyAfterEof ==
    \A j \in Jobs :
        /\ cons[j] = "finished" <=> (obs[j] # <<>> /\ Last(obs[j])[1] = "Eof")
        /\ EofCount(obs[j] \o upd[j]) <= 1
        /\ cons[j] = "finished" =>
               /\ EofCount(obs[j]) = 1
               /\ upd[j] = <<>>
               /\ prodGone[j]
               /\ \A w \in Workers : wk[w].job # j

\* next() returned None after both segments of a transcript.
C14_Witness ==
    \E j \in Jobs :
        /\ cons[j] = "finished"
        /\ Len(LinesOf(obs[j])) = MaxStreamSegs

\* ---------------------------------------------------------------- C15
\* What the successive next() calls of job j's consumer returned as updates.
Returned(j) ==
    [k \in 1..Len(LinesOf(obs[j])) |-> LineText(LinesOf(obs[j])[k][2])]

Errors == {"DownloadErr", "Err", "WorkerDied"}

\* How many of the notifications in s are errors.
ErrCount(s) == Len(SelectSeq(s, LAMBDA m : m[1] \in Errors))

\* C16: the consumer of a job is sent at most one error; once it has received
\* an error, that error is the last thing it received, it holds no handle any
\* more, nothing is in flight to it and the producer is done with the job.
C16_ErrorDeliveredOnce ==
    \A j \in Jobs :
        /\ ErrCount(Delivered(j)) <= 1
        /\ ErrCount(obs[j]) = 1 =>
               /\ Last(obs[j])[1] \in Errors
               /\ cons[j] = "errored"
               /\ stageQ[j] = <<>> /\ upd[j] = <<>>
               /\ prodGone[j]
               /\ \A w \in Workers : wk[w].job # j
        /\ cons[j] = "errored" => ErrCount(obs[j]) = 1

\* One consumer got its error from next(), another from a stage handle.
C16_Witness ==
    /\ \E j \in Jobs : obs[j] # <<>> /\ Last(obs[j])[1] = "Err"
    /\ \E j \in Jobs : obs[j] # <<>> /\ Last(obs[j])[1] = "DownloadErr"

\* ---------------------------------------------------------------- C17
\* C17: the consumer of every submitted job, as long as it keeps awaiting its
\* handles and calling next(), eventually gets the end of the transcript or
\* an error.
C17_ConsumerSeesTerminal ==
    \A j \in 1..(MaxJobs + MaxOverload) :
        (j \in Jobs) ~> (j \in Jobs /\ cons[j] \in {"finished", "errored", "dropped"})

\* ---------------------------------------------------------------- C18
\* C18: the intake queue never holds more than QueueCap jobs, and while it is
\* full no submission is lost: every submitted job that no worker has
\* dequeued yet is in the queue.
C18_FullQueueBlocksSubmit ==
    /\ Len(queue) <= QueueCap
    /\ Len(queue) = QueueCap =>
           \A j \in Jobs : runs[j] = 0 => \E i \in 1..Len(queue) : queue[i] = j


\* C19: a failed edit call leaves the last-applied text alone, so an update
\* window is skipped as a duplicate only when its text is what the remote
\* message shows; a window repeating the text of a failed edit is edited again.
C19_FailedEditIsRetried ==
    (wPc = "recv" /\ winTexts # <<>> /\ winEdits = <<>>) => text = remote

\* C20: whenever the update worker is not inside an edit call, current_text is
\* the text the remote message shows, failed edit calls included.
C20_CurrentTextIsRemote ==
    (sendSt = "spawned" /\ wPc # "editing") => current_text = remote

\* C21: every Edit taken during the debounce wait restarts the timer, so the
\* timer ends the wait only once a full debounce delay has passed since the
\* most recent Edit was taken.
C21_TimerRestartsOnUpdate ==
    [][DebounceTimeout => sinceUpd >= DebounceDelay]_vars

\* How many Flush markers the response queue holds.
FlushCount(q) == Cardinality({i \in 1..Len(q) : q[i].kind = "Flush"})

\* A Flush request is taken by the worker while it waits in the debounce loop.
FlushCutsWait == DebounceRecv /\ Head(req).kind = "Flush"

\* A flushed burst A, B, B has been settled and its flush() has returned.
BurstFlushed ==
    /\ Len(winTexts) = 3
    /\ winTexts[2] = winTexts[3]
    /\ winTexts[3] # winApplied
    /\ flush_after
    /\ wPc = "recv"
    /\ callerPc = "idle"
    /\ lastRet.op = "flush"

\* C22: a Flush taken during the debounce wait ends the wait at once, whatever
\* is left of the timer; the worker applies or skips the most recent pending
\* text and only after that posts exactly one Flush acknowledgment. For the
\* burst A, B, B followed by flush there is exactly one edit call, with text
\* B, and flush returns Ok.
C22_FlushEndsWaitThenAcks ==
    /\ [][FlushCutsWait =>
            /\ wPc' \in {"recv", "editing"}
            /\ text' = winTexts[Len(winTexts)]
            /\ wPc' = "editing" => (FlushCount(resp') = 0 /\ text' # current_text)
            /\ wPc' = "recv" => (FlushCount(resp') = 1 /\ text' = current_text)]_vars
    /\ [][(wPc = "editing" /\ flush_after /\ wPc' = "recv")
            => (FlushCount(resp) = 0 /\ FlushCount(resp') = 1)]_vars
    /\ [](FlushCount(resp) <= 1)
    /\ [](BurstFlushed => (winEdits = <<winTexts[3]>> /\ lastRet.ok))

C22_Witness ==
    /\ BurstFlushed
    /\ winTexts = <<1, 2, 2>>
    /\ winEdits = <<2>>
    /\ remote = 2
    /\ lastRet.ok

\* `a` can be obtained from `b` by deleting elements.
RECURSIVE IsSubseq(_, _)
IsSubseq(a, b) ==
    IF a = <<>> THEN TRUE
    ELSE IF b = <<>> THEN FALSE
    ELSE IF Head(a) = Head(b) THEN IsSubseq(Tail(a), Tail(b))
    ELSE IsSubseq(a, Tail(b))

\* C23: the texts of the successive edit calls of a channel are a subsequence
\* of the dispatched texts in dispatch order: no edit call carries a text that
\* was dispatched before the text of an earlier edit call.
C23_EditsInDispatchOrder == IsSubseq(editLog, sentLog)

C23_Witness ==
    /\ sentLog = <<2, 2, 1>>
    /\ editLog = <<2, 1>>
    /\ wPc = "recv"
    /\ remote = 1

\* C24: no edit call carries the worker's last-applied text: the text of an
\* edit call differs from current_text as it was when the call was issued, so
\* the first edit call never carries the initially sent text and no two
\* successive edit calls carry the same text; a settled window whose final
\* text equals the last-applied text has no edit call.
C24_NoEditOfLastApplied ==
    /\ [][Len(editLog') > Len(editLog) =>
            editLog'[Len(editLog')] # current_text]_vars
    /\ [](editLog # <<>> => editLog[1] # sentText)
    /\ [](\A i \in 1..(Len(editLog) - 1) : editLog[i] # editLog[i + 1])
    /\ []((winTexts # <<>> /\ wPc # "debounce"
            /\ winTexts[Len(winTexts)] = winApplied) => winEdits = <<>>)

\* C24 witness: a burst that ends on the initially sent text has been settled
\* without any edit call.
C24_Witness ==
    /\ wPc = "recv"
    /\ winTexts = <<2, sentText>>
    /\ nResolved = 2
    /\ editLog = <<>>
    /\ remote = sentText

\* A flush() or close() call is in progress on the handle.
FlushInProgress == callerPc \in {"flushing", "closing"}

\* The Flush requests and acknowledgments in flight: queued requests, the one
\* the worker holds while its edit call is out, and queued Flush markers.
FlushTokens ==
    Cardinality({i \in 1..Len(req) : req[i].kind = "Flush"})
    + (IF wPc = "editing" /\ flush_after THEN 1 ELSE 0)
    + FlushCount(resp)

\* C25: a Flush marker is never seen outside a flush() call. While no flush()
\* is in progress nothing of a flush is in flight (no Flush request, no Flush
\* marker), and dispatch_edit_text never reaches its unreachable!() arm; while
\* a flush() is in progress on a live channel exactly one Flush request or
\* acknowledgment is in flight, and a flush() that returns Ok has consumed the
\* one Flush marker of the response queue.
C25_FlushSeenOnlyInFlush ==
    /\ [](callerPc # "panicked")
    /\ [](~FlushInProgress => FlushTokens = 0)
    /\ []((FlushInProgress /\ sendSt # "failed") => FlushTokens = 1)
    /\ [][(FlushInProgress /\ ~FlushInProgress' /\ lastRet'.ok) =>
            (resp # <<>> /\ Head(resp).kind = "Flush" /\ FlushCount(resp) = 1
             /\ FlushCount(resp') = 0)]_vars

\* C25 witness: after a flush() that cut a debounce window short and returned
\* Ok, a later dispatch_edit_text has looked at the response queue and
\* returned.
C25_Witness ==
    /\ callerPc = "idle"
    /\ lastRet.op = "dispatch"
    /\ nFlush = 1
    /\ nDispatch = 2
    /\ sentAtFlush = 1
    /\ flush_after
    /\ editLog # <<>>
    /\ resp = <<>>

\* C26: a flush() that took the errors of several failed edit calls off the
\* response queue returns Err with the most recent of them.
C26_FlushReportsLatestError ==
    (FlushReturned /\ nCaptured >= 2) =>
        (~lastRet.ok /\ lastRet.err = delayed_error
         /\ delayed_error = RequestError(Len(editLog)))

\* C27: when the initial send failed, the first error a handle call returns is
\* the send error, not the generic UpdateMsgWorkerDied, whenever the caller's
\* call comes relative to the send worker's step.
C27_SendErrorNotMasked ==
    [][(sendSt' = "failed" /\ ~errReported /\ errReported') =>
            lastRet'.err = RequestError(0)]_vars

\* The handle was dropped without close() on a channel whose message was sent.
DroppedUnclosed ==
    /\ callerPc = "dropped"
    /\ lastRet.op # "close"
    /\ sendSt = "spawned"

\* C28: dropping the handle without close() loses no buffered edit. When the
\* request queue closes during a debounce wait the worker goes on to apply or
\* skip the pending text, and after the drop it eventually terminates with
\* every Edit request resolved and the last dispatched text as its
\* last-applied text.
C28_DropLosesNoEdit ==
    /\ [][DebounceClosed =>
            /\ text' = winTexts[Len(winTexts)]
            /\ IF text' = current_text
               THEN wPc' = "recv" /\ editLog' = editLog
               ELSE wPc' = "editing" /\ editLog' = Append(editLog, text')]_vars
    /\ DroppedUnclosed ~>
            (wPc = "done" /\ nResolved = nSent
             /\ (lastReq # 0 => current_text = lastReq))

\* C28 witness: the handle was dropped with an update pending in the debounce
\* window (the wait ended before its deadline, with no flush ever sent); the
\* worker issued the edit call for it and then terminated.
C28_Witness ==
    /\ DroppedUnclosed
    /\ wPc = "done"
    /\ nFlush = 0
    /\ timer > 0
    /\ editLog = <<2>>
    /\ remote = 2

\* The run_worker loops that are still running.
LiveWorkers == {w \in Workers : wk[w].pc # "dead"}

\* C29: whatever the outcome of a job, all NumWorkers worker loops stay alive.
C29_WorkersNeverDie == Cardinality(LiveWorkers) = NumWorkers

\* Job j's consumer gets something back from a next() call made with updates
\* queued.
NextReturns(j) == cons[j] = "next" /\ obs'[j] # obs[j] /\ upd[j] # <<>>

\* C30 as stated: a next() call that finds several Lines queued discards all
\* but the most recent one and returns that one.
C30_NextKeepsOnlyNewest ==
    [][\A j \in Jobs :
         (NextReturns(j) /\ Len(LinesOf(upd[j])) >= 2) =>
             /\ Last(obs'[j]) = Last(LinesOf(upd[j]))
             /\ LinesOf(upd'[j]) = <<>>]_vars

\* C30 amended: a next() call takes exactly the oldest queued update and
\* leaves the others queued, however many Lines are waiting; every Line the
\* producer posted is either received or still queued, so each segment is
\* returned by a next() call of its own.
C30_NextTakesOldestOnly ==
    /\ [][\A j \in Jobs :
            NextReturns(j) =>
                /\ obs'[j] = Append(obs[j], Head(upd[j]))
                /\ upd'[j] = Tail(upd[j])]_vars
    /\ [](\A j \in Jobs :
            cons[j] # "dropped" =>
                /\ \A k \in 1..Len(LinesOf(obs[j] \o upd[j])) :
                       LinesOf(obs[j] \o upd[j])[k][2] = k
                /\ \A w \in Workers :
                       (wk[w].job = j /\ wk[w].pc = "engine") =>
                           Len(LinesOf(obs[j] \o upd[j])) = wk[w].seg)

\* C30 witness: a next() call found two Lines queued, and the consumer has
\* received both of them, one per call, before the end.
C30_Witness ==
    /\ sawBurst
    /\ nSubmitted = 1
    /\ cons[1] = "finished"
    /\ LinesOf(obs[1]) = << <<"Line", 1>>, <<"Line", 2>> >>

\* The producer of job j is in the engine step with a next notification to
\* post.
Producing(w) == wk[w].pc = "engine"

\* C31: the update channel of a Transcribing stage never holds more than
\* UpdCap undelivered notifications, and while it is full and the consumer
\* holds its end the producer does not move: it posts nothing and stays in
\* the engine step.
C31_ProducerBoundedAhead ==
    /\ [](\A j \in Jobs : Len(upd[j]) <= UpdCap)
    /\ [][\A w \in Workers :
            (Producing(w) /\ Len(upd[wk[w].job]) = UpdCap
             /\ cons[wk[w].job] # "dropped"
             /\ cons'[wk[w].job] # "dropped") =>
                /\ wk'[w] = wk[w]
                /\ Len(upd'[wk[w].job]) <= Len(upd[wk[w].job])]_vars

\* C31 witness: the channel is full, the consumer holds its handle and the
\* engine has one more segment to send.
C31_Witness ==
    \E w \in Workers :
        /\ Producing(w)
        /\ wk[w].seg = UpdCap
        /\ Len(upd[wk[w].job]) = UpdCap
        /\ cons[wk[w].job] = "next"

\* C32 as stated: posting a notification never blocks the producer: whenever
\* it is in the engine step its next send can complete at once.
C32_PostNeverBlocks ==
    \A w \in Workers : Producing(w) => CanPost(wk[w].job)

\* C32 amended: the producer's send is held up only while UpdCap
\* notifications are undelivered and the consumer still holds its end, and
\* whenever it is held up the consumer has something to receive, so the
\* producer goes on as soon as the consumer calls next() or drops its handle.
C32_PostBlocksOnlyWhenFull ==
    /\ [](\A w \in Workers :
            (Producing(w) /\ ~CanPost(wk[w].job)) =>
                /\ Len(upd[wk[w].job]) = UpdCap
                /\ cons[wk[w].job] # "dropped"
                /\ cons[wk[w].job] = "next" \/ stageQ[wk[w].job] # <<>>)
    /\ [][\A w \in Workers :
            (Producing(w) /\ ~CanPost(wk[w].job) /\ NextReturns(wk[w].job))
                => CanPost(wk[w].job)']_vars

\* C32 witness: a transcript longer than the channel has been produced to its
\* end and its worker is free again, with notifications still queued for the
\* consumer.
C32_Witness ==
    /\ nSubmitted = 1
    /\ prodGone[1]
    /\ \A w \in Workers : wk[w].pc = "idle"
    /\ Len(LinesOf(obs[1] \o upd[1])) = UpdCap + MaxBacklog
    /\ upd[1] # <<>>
    /\ cons[1] = "next"

\* C33: whenever dump_after returns an error, whatever its cause (the closure,
\* serializing, or writing the file), the in-memory database equals its value
\* before the call.
C33_ErrorRollsBack ==
    [][(nDbOps' # nDbOps /\ dbRet' # "Ok") => inner' = inner]_vars

\* C34: whenever the latest mutation returned Ok, the file holds the
\* serialization of the in-memory database.
C34_OkMeansDumped ==
    (nDbOps > 0 /\ dbRet = "Ok") => disk = Serialized(inner)

\* C35: sidecar attachments are symmetric pairs (chat A holds HasSidecar(to B)
\* exactly when chat B holds IsSidecar(to A)), and detach_sidecar on an
\* attached chat never ends in Corrupt.
C35_AttachSymmetric ==
    /\ \A a \in DOMAIN inner.chats, b \in DOMAIN inner.chats :
           inner.chats[a].attach = has_sidecar(b)
               <=> inner.chats[b].attach = is_sidecar(a)
    /\ \A c \in DOMAIN inner.chats :
           inner.chats[c].attach # NoAttach
               => FDetachSidecar(inner, c).err # "Corrupt"

\* C36: no operation removes a user from the database: a user id that the
\* database holds is held after every step, rolled-back transactions
\* included.
C36_UsersOnlyGrow ==
    [][\A u \in DOMAIN inner.users : u \in DOMAIN inner'.users]_vars

\* A transaction was rolled back while the database held a user.
C36_Witness ==
    /\ dbRet \in {"ChatAlreadyHasAttach", "SidecarAlreadyHasAttach",
                  "MissingChat", "MissingSidecarAttach", "Corrupt",
                  "MissingUser"}
    /\ inner.users # <<>>

\* C37: for a message whose sender is not a trusted user no command is run
\* and no transcription job is submitted, and try_handle_message returns
\* Ignore.
C37_UntrustedIgnored ==
    (nMsgs > 0 /\ ~hTrusted) =>
        /\ hCmd = "none"
        /\ ~hJob
        /\ hRet = "Ignore"

PartsHolding(n) ==
    {i \in 1..Len(multipart) :
        \E k \in 1..Len(multipart[i].lines) : multipart[i].lines[k][3] = n}

\* C39: every transcript line is in exactly one part, the one whose window of
\* 240 seconds contains its end time; no line is in no part; and each part
\* holds its lines in transcript order.
C39_EveryLineInItsPart ==
    /\ \A n \in 1..Len(transcription) :
           PartsHolding(n) =
               {1 + transcription[n].end_secs \div LONG_MSG_CHUNK_CUTOFF_SECS}
    /\ \A i \in 1..Len(multipart) :
           \A k \in 1..Len(multipart[i].lines), l \in 1..Len(multipart[i].lines) :
               k < l => multipart[i].lines[k][3] < multipart[i].lines[l][3]

====
